---- MODULE Spec2Model ----
\* Model of octoprint_filamentsensoruniversal/__init__.py: the Debouncer, the
\* sensor polling thread, sensor setup, the print lifecycle handler and the
\* runout / jam handlers.
\*
\* Time is counted in milliseconds.  time.time() returns seconds, so a clock
\* difference d (ms) exceeds an interval i (s) when d > i * MsPerSecond.
EXTENDS Integers, Sequences, FiniteSets, TLC

\* ---------------------------------------------------------------- bounds

\* Number of 200 ms sleeps the polling thread performs.
MaxTicks == 5
\* Number of clock steps of the stand-alone Debouncer specification.
MaxSteps == 14
\* Number of 200 ms sleeps of the polling thread in the lock-level
\* specification.
MaxLockTicks == 2

\* ------------------------------------------------------------- constants

\* time.sleep(0.2) in _sensor_thread.
SleepMs == 200
\* time.time() counts seconds.
MsPerSecond == 1000
\* runout_bounce / jam_bounce of get_settings_defaults.
DefaultBounce == 1000

\* gpiod chip names: "" disables the sensor.
Chips == {"", "gpiochip0"}
\* Values of the *_bounce settings (int(), so whole numbers).
BounceValues == {-1, 0, 1, DefaultBounce}
\* Values of the *_bounce settings the plugin specification starts from.
PollBounce == {0}
\* Values of the *_gcode settings.
Gcodes == {"", "M600"}

\* octoprint.events.Events used by on_event, and one event it ignores.
PRINT_STARTED == "PrintStarted"
PRINT_RESUMED == "PrintResumed"
PRINT_DONE == "PrintDone"
PRINT_FAILED == "PrintFailed"
PRINT_PAUSED == "PrintPaused"
PRINT_CANCELLED == "PrintCancelled"
ERROR == "Error"
CONNECTED == "Connected"
Events ==
  {PRINT_STARTED, PRINT_RESUMED, PRINT_DONE, PRINT_FAILED, PRINT_PAUSED,
   PRINT_CANCELLED, ERROR, CONNECTED}

\* Optional[Debouncer]: the empty slot.
None == [none |-> TRUE]

VARIABLES
  now,               \* the clock, ms
  settings,          \* self._settings
  runout_debouncer,  \* self._runout_debouncer
  jam_debouncer,     \* self._jam_debouncer
  print_running,     \* self._print_running
  setup_pc,          \* "initialize" | "idle" | "setup": initialize / on_settings_save
  poll_pc,           \* position of the polling thread
  runout_triggered,  \* local of _sensor_thread
  jam_triggered,     \* local of _sensor_thread
  poll_exc,          \* the call whose exception ended the polling thread, or ""
  printer_calls,     \* self._printer calls made by the last step
  paused_by,         \* the handlers that called pause_print() since on_event
                     \* last set the gate Active
  event_started,     \* the last step was on_event(PRINT_STARTED)
  start_cancelled,   \* the gate is Active, and the on_event that set it
                     \* Active called cancel_print()
  run_value,         \* the level of the latest run of equal runout samples
  run_since,         \* the clock at the first sample of that run
  last_glitch,       \* ms from the first sample off the stabilized value to
                     \* the sample back on it, for the latest such excursion
                     \* of the runout line; -1 before the first
  gpio_lock,         \* the thread inside `with self._gpio_lock:`, or ""
  closed,            \* the slots whose Debouncer is still referenced after
                     \* its chip was closed
  caller_pc          \* position of the thread running api_get_* / on_event

vars ==
  <<now, settings, runout_debouncer, jam_debouncer,
    print_running, setup_pc, poll_pc, runout_triggered, jam_triggered,
    poll_exc, printer_calls, paused_by, event_started, start_cancelled,
    run_value,
    run_since, last_glitch, gpio_lock, closed, caller_pc>>

\* What the stand-alone Debouncer specification records about the samples.
samples == <<run_value, run_since, last_glitch>>

\* The lock, and what only the lock-level specification follows.
locks == <<gpio_lock, closed, caller_pc>>

\* ------------------------------------------------------------- Debouncer

\* Debouncer.__init__: value and _last_value are the raw reading, the flags
\* are false, _last_change_time is the clock.
Debouncer(raw, interval, t) ==
  [interval |-> interval, value |-> raw, rising |-> FALSE, falling |-> FALSE,
   last_value |-> raw, last_change_time |-> t]

\* update with the hold compared by >= where the code has >.
update_ge(d, raw, t) ==
  LET d1 == IF raw # d.last_value
            THEN [d EXCEPT !.last_value = raw, !.last_change_time = t]
            ELSE d
      old_value == d1.value
      d2 == IF t - d1.last_change_time >= d1.interval * MsPerSecond
            THEN [d1 EXCEPT !.value = raw]
            ELSE d1
  IN [d2 EXCEPT !.rising = d2.value /\ ~old_value,
                !.falling = ~d2.value /\ old_value]

\* update that records a raw change without resetting _last_change_time.
update_no_reset(d, raw, t) ==
  LET d1 == IF raw # d.last_value THEN [d EXCEPT !.last_value = raw] ELSE d
      old_value == d1.value
      d2 == IF t - d1.last_change_time > d1.interval * MsPerSecond
            THEN [d1 EXCEPT !.value = raw]
            ELSE d1
  IN [d2 EXCEPT !.rising = d2.value /\ ~old_value,
                !.falling = ~d2.value /\ old_value]

\* update whose commit test reads _last_change_time as it was on entry.
update_stale_time(d, raw, t) ==
  LET d1 == IF raw # d.last_value
            THEN [d EXCEPT !.last_value = raw, !.last_change_time = t]
            ELSE d
      old_value == d1.value
      d2 == IF t - d.last_change_time > d1.interval * MsPerSecond
            THEN [d1 EXCEPT !.value = raw]
            ELSE d1
  IN [d2 EXCEPT !.rising = d2.value /\ ~old_value,
                !.falling = ~d2.value /\ old_value]

\* update that sets the edge flags and never clears them.
update_sticky_flags(d, raw, t) ==
  LET d1 == IF raw # d.last_value
            THEN [d EXCEPT !.last_value = raw, !.last_change_time = t]
            ELSE d
      old_value == d1.value
      d2 == IF t - d1.last_change_time > d1.interval * MsPerSecond
            THEN [d1 EXCEPT !.value = raw]
            ELSE d1
  IN [d2 EXCEPT !.rising = d.rising \/ (d2.value /\ ~old_value),
                !.falling = d.falling \/ (~d2.value /\ old_value)]

\* update that debounces by count: a reading is committed when it repeats
\* the previous one, whatever the clock says.
update_by_count(d, raw, t) ==
  LET old_value == d.value
      d1 == IF raw = d.last_value THEN [d EXCEPT !.value = raw] ELSE d
      d2 == IF raw # d.last_value
            THEN [d1 EXCEPT !.last_value = raw, !.last_change_time = t]
            ELSE d1
  IN [d2 EXCEPT !.rising = d2.value /\ ~old_value,
                !.falling = ~d2.value /\ old_value]

\* Debouncer.update with the raw reading and the clock it reads.
update(d, raw, t) ==
  LET d1 == IF raw # d.last_value
            THEN [d EXCEPT !.last_value = raw, !.last_change_time = t]
            ELSE d
      old_value == d1.value
      d2 == IF t - d1.last_change_time > d1.interval * MsPerSecond
            THEN [d1 EXCEPT !.value = raw]
            ELSE d1
  IN [d2 EXCEPT !.rising = d2.value /\ ~old_value,
                !.falling = ~d2.value /\ old_value]

\* -------------------------------------------------------------- settings

\* get_settings_defaults.
get_settings_defaults ==
  [runout_chip |-> "", runout_bounce |-> DefaultBounce, runout_gcode |-> "",
   runout_pause_print |-> TRUE,
   jam_chip |-> "", jam_bounce |-> DefaultBounce, jammed_gcode |-> "",
   jammed_pause_print |-> TRUE]

SettingsDomain ==
  [runout_chip : Chips, runout_bounce : BounceValues, runout_gcode : Gcodes,
   runout_pause_print : BOOLEAN,
   jam_chip : Chips, jam_bounce : BounceValues, jammed_gcode : Gcodes,
   jammed_pause_print : BOOLEAN]

\* The settings the plugin specification starts from: the debounce intervals
\* are in PollBounce, and at most one sensor's pause / gcode settings differ
\* from get_settings_defaults.
InitSettings ==
  {s \in SettingsDomain :
     /\ s.runout_bounce \in PollBounce
     /\ s.jam_bounce \in PollBounce
     /\ \/ /\ s.runout_pause_print = get_settings_defaults.runout_pause_print
           /\ s.runout_gcode = get_settings_defaults.runout_gcode
        \/ /\ s.jammed_pause_print = get_settings_defaults.jammed_pause_print
           /\ s.jammed_gcode = get_settings_defaults.jammed_gcode}

\* The payloads of on_settings_save: the keys the settings dialog changed.
SaveData ==
  {[runout_chip |-> c] : c \in Chips} \cup {[jam_chip |-> c] : c \in Chips}

\* str.splitlines() of a *_gcode setting.
splitlines(s) == IF s = "" THEN << >> ELSE <<s>>

runout_sensor_enabled == settings.runout_chip # ""
jam_sensor_enabled == settings.jam_chip # ""
runout_gcode == splitlines(settings.runout_gcode)
jammed_gcode == splitlines(settings.jammed_gcode)

\* The runout_sensor / jam_sensor properties.
runout_sensor ==
  IF runout_debouncer = None THEN FALSE ELSE ~runout_debouncer.value
jam_sensor ==
  IF jam_debouncer = None THEN FALSE ELSE jam_debouncer.value

\* The status of GET /filament and GET /jammed.
api_get_filament ==
  IF runout_sensor_enabled THEN (IF runout_sensor THEN "0" ELSE "1") ELSE "-1"
api_get_jammed ==
  IF jam_sensor_enabled THEN (IF jam_sensor THEN "1" ELSE "0") ELSE "-1"

\* ----------------------------------------------------------------- setup

\* One slot of _setup_sensor: the old line is closed and dropped; an enabled
\* sensor gets a new Debouncer on the line's reading raw, unless opening or
\* reading the line raises OSError (ok = FALSE).
setup_slot(chip, raw, bounce, ok) ==
  IF chip # "" /\ ok THEN Debouncer(raw, bounce, now) ELSE None

\* _setup_sensor, the whole locked section.
SetupSensorBody ==
  \E okR \in BOOLEAN, okJ \in BOOLEAN, rawR \in BOOLEAN, rawJ \in BOOLEAN :
    /\ runout_debouncer' =
         setup_slot(settings.runout_chip, rawR, settings.runout_bounce, okR)
    /\ jam_debouncer' =
         setup_slot(settings.jam_chip, rawJ, settings.jam_bounce, okJ)

\* initialize: _setup_sensor, then the polling thread is started.
Initialize ==
  /\ setup_pc = "initialize"
  /\ SetupSensorBody
  /\ setup_pc' = "idle"
  /\ poll_pc' = "update"
  /\ printer_calls' = << >>
  /\ event_started' = FALSE
  /\ UNCHANGED <<now, settings, print_running,
                 runout_triggered, jam_triggered, poll_exc,
                 paused_by, start_cancelled, samples, locks>>

\* on_settings_save, first half: SettingsPlugin.on_settings_save stores data.
OnSettingsSave ==
  /\ setup_pc = "idle"
  /\ \E data \in SaveData :
       settings' = [k \in DOMAIN settings |->
                      IF k \in DOMAIN data THEN data[k] ELSE settings[k]]
  /\ setup_pc' = "setup"
  /\ printer_calls' = << >>
  /\ event_started' = FALSE
  /\ UNCHANGED <<now, runout_debouncer, jam_debouncer,
                 print_running, poll_pc, runout_triggered, jam_triggered,
                 poll_exc, paused_by, start_cancelled, samples, locks>>

\* on_settings_save, second half: _setup_sensor.
SetupSensor ==
  /\ setup_pc = "setup"
  /\ SetupSensorBody
  /\ setup_pc' = "idle"
  /\ printer_calls' = << >>
  /\ event_started' = FALSE
  /\ UNCHANGED <<now, settings, print_running, poll_pc,
                 runout_triggered, jam_triggered, poll_exc,
                 paused_by, start_cancelled, samples, locks>>

\* ------------------------------------------------------- lifecycle events

\* on_event reading the runout line with the polarity of the jam line.
on_event_calls_polarity(event) ==
  (IF event = PRINT_STARTED /\ runout_debouncer # None /\ runout_debouncer.value
   THEN <<"cancel_print">> ELSE << >>)
  \o (IF event = PRINT_STARTED /\ jam_sensor THEN <<"cancel_print">> ELSE << >>)

\* The cancel_print() calls of on_event.
on_event_calls(event) ==
  (IF event = PRINT_STARTED /\ runout_sensor THEN <<"cancel_print">> ELSE << >>)
  \o (IF event = PRINT_STARTED /\ jam_sensor THEN <<"cancel_print">> ELSE << >>)

\* on_event that enables the sensor on PRINT_STARTED only.
on_event_gate_started_only(event) ==
  IF event = PRINT_STARTED THEN TRUE
  ELSE IF event \in {PRINT_DONE, PRINT_FAILED, PRINT_PAUSED, PRINT_CANCELLED,
                     ERROR} THEN FALSE
  ELSE print_running

\* The gate after on_event.
on_event_gate(event) ==
  IF event \in {PRINT_STARTED, PRINT_RESUMED} THEN TRUE
  ELSE IF event \in {PRINT_DONE, PRINT_FAILED, PRINT_PAUSED, PRINT_CANCELLED,
                     ERROR} THEN FALSE
  ELSE print_running

\* on_event(event).
on_event(event) ==
  /\ print_running' = on_event_gate(event)
  /\ printer_calls' = on_event_calls(event)
  /\ event_started' = (event = PRINT_STARTED)
  /\ paused_by' =
       IF event \in {PRINT_STARTED, PRINT_RESUMED} THEN << >>
       ELSE paused_by
  /\ start_cancelled' =
       IF event \in {PRINT_STARTED, PRINT_RESUMED}
       THEN on_event_calls(event) # << >>
       ELSE on_event_gate(event) /\ start_cancelled
  /\ UNCHANGED <<now, settings, runout_debouncer,
                 jam_debouncer, setup_pc, poll_pc, runout_triggered,
                 jam_triggered, poll_exc, samples, locks>>

\* OctoPrint delivers an event to the initialized plugin.
OnEvent ==
  /\ setup_pc # "initialize"
  /\ \E event \in Events : on_event(event)

\* ------------------------------------------------------ polling thread

\* The locked section of one _sensor_thread iteration.  rawR / rawJ are what
\* line.get_value() returns and readR / readJ say whether it returns; if it
\* raises, the exception leaves _sensor_thread and the thread ends.
SensorThreadUpdate ==
  /\ poll_pc = "update"
  /\ \E readR \in BOOLEAN, readJ \in BOOLEAN, rawR \in BOOLEAN, rawJ \in BOOLEAN :
       LET hasR == runout_debouncer # None
           hasJ == jam_debouncer # None
           failR == hasR /\ ~readR
           failJ == ~failR /\ hasJ /\ ~readJ
           newR == IF hasR /\ ~failR
                   THEN update(runout_debouncer, rawR, now)
                   ELSE runout_debouncer
           newJ == IF hasJ /\ ~failR /\ ~failJ
                   THEN update(jam_debouncer, rawJ, now)
                   ELSE jam_debouncer
       IN /\ runout_debouncer' = newR
          /\ jam_debouncer' = newJ
          /\ runout_triggered' = (hasR /\ ~failR /\ newR.falling)
          /\ jam_triggered' = (hasJ /\ ~failR /\ ~failJ /\ newJ.rising)
          /\ poll_pc' = IF failR \/ failJ THEN "dead" ELSE "runout_handler"
          /\ poll_exc' = IF failR \/ failJ THEN "get_value" ELSE poll_exc
  /\ printer_calls' = << >>
  /\ event_started' = FALSE
  /\ UNCHANGED <<now, settings, print_running, setup_pc,
                 paused_by, start_cancelled, samples, locks>>

\* A handler that does not test the gate: it pauses and forwards its gcode
\* on every edge.
HandlerEnter_ignore_gate(pc, triggered, pause, pc_paused, pc_gcode, pc_next, ok) ==
  /\ poll_pc = pc
  /\ IF triggered /\ pause
     THEN /\ printer_calls' = <<"pause_print">>
          /\ paused_by' = Append(paused_by, pc)
          /\ poll_pc' = IF ok THEN pc_paused ELSE "dead"
          /\ poll_exc' = IF ok THEN poll_exc ELSE "pause_print"
     ELSE /\ printer_calls' = << >>
          /\ paused_by' = paused_by
          /\ poll_pc' = IF triggered THEN pc_gcode ELSE pc_next
          /\ poll_exc' = poll_exc
  /\ event_started' = FALSE
  /\ UNCHANGED <<now, settings, runout_debouncer,
                 jam_debouncer, print_running, setup_pc, runout_triggered,
                 jam_triggered, start_cancelled, samples, locks>>

\* A handler up to and including its pause_print() call:
\*   if triggered: if self._print_running: if pause: self._printer.pause_print()
\* ok says whether pause_print() returns.
HandlerEnter(pc, triggered, pause, pc_paused, pc_gcode, pc_next, ok) ==
  /\ poll_pc = pc
  /\ IF triggered /\ print_running /\ pause
     THEN /\ printer_calls' = <<"pause_print">>
          /\ paused_by' = Append(paused_by, pc)
          /\ poll_pc' = IF ok THEN pc_paused ELSE "dead"
          /\ poll_exc' = IF ok THEN poll_exc ELSE "pause_print"
     ELSE /\ printer_calls' = << >>
          /\ paused_by' = paused_by
          /\ poll_pc' = IF triggered /\ print_running THEN pc_gcode ELSE pc_next
          /\ poll_exc' = poll_exc
  /\ event_started' = FALSE
  /\ UNCHANGED <<now, settings, runout_debouncer,
                 jam_debouncer, print_running, setup_pc, runout_triggered,
                 jam_triggered, start_cancelled, samples, locks>>

\* A handler that leaves the gate as it is after pause_print() returned.
HandlerPaused_keep_gate(pc, pc_gcode) ==
  /\ poll_pc = pc
  /\ poll_pc' = pc_gcode
  /\ printer_calls' = << >>
  /\ event_started' = FALSE
  /\ UNCHANGED <<now, settings, runout_debouncer, jam_debouncer,
                 print_running, setup_pc, runout_triggered, jam_triggered,
                 poll_exc, paused_by, start_cancelled, samples, locks>>

\* A handler after pause_print() returned: self._print_running = False.
HandlerPaused(pc, pc_gcode) ==
  /\ poll_pc = pc
  /\ print_running' = FALSE
  /\ start_cancelled' = FALSE
  /\ poll_pc' = pc_gcode
  /\ printer_calls' = << >>
  /\ event_started' = FALSE
  /\ UNCHANGED <<now, settings, runout_debouncer,
                 jam_debouncer, setup_pc, runout_triggered, jam_triggered,
                 poll_exc, paused_by, samples, locks>>

\* A handler's tail that never forwards the gcode.
HandlerGcode_never(pc, gcode, pc_next, ok) ==
  /\ poll_pc = pc
  /\ printer_calls' = << >>
  /\ poll_pc' = pc_next
  /\ event_started' = FALSE
  /\ UNCHANGED <<now, settings, runout_debouncer,
                 jam_debouncer, print_running, setup_pc, runout_triggered,
                 jam_triggered, poll_exc, paused_by, start_cancelled, samples,
                 locks>>

\* A handler's tail: if gcode: self._printer.commands(gcode).
\* ok says whether commands() returns.
HandlerGcode(pc, gcode, pc_next, ok) ==
  /\ poll_pc = pc
  /\ IF gcode # << >>
     THEN /\ printer_calls' = <<"commands">>
          /\ poll_pc' = IF ok THEN pc_next ELSE "dead"
          /\ poll_exc' = IF ok THEN poll_exc ELSE "commands"
     ELSE /\ printer_calls' = << >>
          /\ poll_pc' = pc_next
          /\ poll_exc' = poll_exc
  /\ event_started' = FALSE
  /\ UNCHANGED <<now, settings, runout_debouncer,
                 jam_debouncer, print_running, setup_pc, runout_triggered,
                 jam_triggered, paused_by, start_cancelled, samples, locks>>

\* if runout_triggered: self.runout_handler()
RunoutHandler ==
  \E ok \in BOOLEAN :
    HandlerEnter("runout_handler", runout_triggered,
                 settings.runout_pause_print, "runout_paused", "runout_gcode",
                 "jam_handler", ok)

RunoutHandlerPaused == HandlerPaused("runout_paused", "runout_gcode")

RunoutHandlerGcode ==
  \E ok \in BOOLEAN :
    HandlerGcode("runout_gcode", runout_gcode, "jam_handler", ok)

\* if jam_triggered: self.jam_handler()
JamHandler ==
  \E ok \in BOOLEAN :
    HandlerEnter("jam_handler", jam_triggered, settings.jammed_pause_print,
                 "jam_paused", "jam_gcode", "sleep", ok)

JamHandlerPaused == HandlerPaused("jam_paused", "jam_gcode")

JamHandlerGcode ==
  \E ok \in BOOLEAN : HandlerGcode("jam_gcode", jammed_gcode, "sleep", ok)

\* time.sleep(0.2), then the next iteration resets its locals.
Sleep ==
  /\ poll_pc = "sleep"
  /\ now < MaxTicks * SleepMs
  /\ now' = now + SleepMs
  /\ poll_pc' = "update"
  /\ runout_triggered' = FALSE
  /\ jam_triggered' = FALSE
  /\ printer_calls' = << >>
  /\ event_started' = FALSE
  /\ UNCHANGED <<settings, runout_debouncer,
                 jam_debouncer, print_running, setup_pc, poll_exc,
                 paused_by, start_cancelled, samples, locks>>

\* ---------------------------------------------------------- the plugin

\* FilamentSensorUniversal.__init__, with the settings OctoPrint loaded.
Init ==
  /\ now = 0
  /\ settings \in InitSettings
  /\ runout_debouncer = None
  /\ jam_debouncer = None
  /\ print_running = FALSE
  /\ setup_pc = "initialize"
  /\ poll_pc = "stopped"
  /\ runout_triggered = FALSE
  /\ jam_triggered = FALSE
  /\ poll_exc = ""
  /\ printer_calls = << >>
  /\ paused_by = << >>
  /\ event_started = FALSE
  /\ start_cancelled = FALSE
  /\ run_value = FALSE
  /\ run_since = 0
  /\ last_glitch = -1
  /\ gpio_lock = ""
  /\ closed = {}
  /\ caller_pc = "idle"

Next ==
  \/ Initialize
  \/ OnSettingsSave
  \/ SetupSensor
  \/ OnEvent
  \/ SensorThreadUpdate
  \/ RunoutHandler
  \/ RunoutHandlerPaused
  \/ RunoutHandlerGcode
  \/ JamHandler
  \/ JamHandlerPaused
  \/ JamHandlerGcode
  \/ Sleep

Spec == Init /\ [][Next]_vars

\* ------------------------------------------- the Debouncer on its own

\* One Debouncer driven as _sensor_thread drives it: update on the reading
\* raw, then time.sleep(0.2).  The samples are recorded.
DebouncerUpdate ==
  /\ poll_pc = "update"
  /\ \E raw \in BOOLEAN :
       /\ runout_debouncer' = update(runout_debouncer, raw, now)
       /\ run_value' = raw
       /\ run_since' = IF raw = run_value THEN run_since ELSE now
       /\ last_glitch' =
            IF raw = runout_debouncer.value /\ run_value # runout_debouncer.value
            THEN now - run_since
            ELSE last_glitch
  /\ poll_pc' = "sleep"
  /\ UNCHANGED <<now, settings, jam_debouncer, print_running, setup_pc,
                 runout_triggered, jam_triggered, poll_exc, printer_calls,
                 paused_by, start_cancelled, event_started, locks>>

DebouncerSleep ==
  /\ poll_pc = "sleep"
  /\ now < MaxSteps * SleepMs
  /\ now' = now + SleepMs
  /\ poll_pc' = "update"
  /\ UNCHANGED <<settings, runout_debouncer, jam_debouncer, print_running,
                 setup_pc, runout_triggered, jam_triggered, poll_exc,
                 printer_calls, paused_by, start_cancelled, event_started, samples, locks>>

\* The runout Debouncer as _setup_sensor creates it from the runout_bounce
\* setting, on a line whose reading is raw.
InitDebouncer ==
  /\ now = 0
  /\ \E bounce \in BounceValues :
       settings = [get_settings_defaults EXCEPT !.runout_chip = "gpiochip0",
                                                !.runout_bounce = bounce]
  /\ \E raw \in BOOLEAN :
       /\ runout_debouncer =
            setup_slot(settings.runout_chip, raw, settings.runout_bounce, TRUE)
       /\ run_value = raw
  /\ run_since = now
  /\ last_glitch = -1
  /\ jam_debouncer = None
  /\ print_running = FALSE
  /\ setup_pc = "idle"
  /\ poll_pc = "update"
  /\ runout_triggered = FALSE
  /\ jam_triggered = FALSE
  /\ poll_exc = ""
  /\ printer_calls = << >>
  /\ paused_by = << >>
  /\ event_started = FALSE
  /\ start_cancelled = FALSE
  /\ gpio_lock = ""
  /\ closed = {}
  /\ caller_pc = "idle"

NextDebouncer ==
  \/ DebouncerUpdate
  \/ DebouncerSleep

SpecDebouncer == InitDebouncer /\ [][NextDebouncer]_vars

\* ------------------------------------- update called twice at one clock

\* A second Debouncer.update at the clock value of the first, on a line
\* that still reads the level the first call sampled.
DebouncerRepeat ==
  /\ poll_pc = "sleep"
  /\ runout_debouncer' = update(runout_debouncer, run_value, now)
  /\ poll_pc' = "repeat"
  /\ UNCHANGED <<now, settings, jam_debouncer, print_running, setup_pc,
                 runout_triggered, jam_triggered, poll_exc, printer_calls,
                 paused_by, start_cancelled, event_started, samples, locks>>

\* time.sleep(0.2) after the second call.
DebouncerRepeatSleep ==
  /\ poll_pc = "repeat"
  /\ now < MaxSteps * SleepMs
  /\ now' = now + SleepMs
  /\ poll_pc' = "update"
  /\ UNCHANGED <<settings, runout_debouncer, jam_debouncer, print_running,
                 setup_pc, runout_triggered, jam_triggered, poll_exc,
                 printer_calls, paused_by, start_cancelled, event_started, samples, locks>>

NextRepeat ==
  \/ DebouncerUpdate
  \/ DebouncerRepeat
  \/ DebouncerSleep
  \/ DebouncerRepeatSleep

SpecRepeat == InitDebouncer /\ [][NextRepeat]_vars

\* ------------------------------------------- the plugin, lock by lock
\*
\* The plugin with every `with self._gpio_lock:` block taken apart into its
\* acquire, its statements and its release.  The lock is a threading.Lock: a
\* thread acquires it only when no thread holds it, and a `with` block
\* releases it when an exception leaves the block.

\* _sensor_thread enters `with self._gpio_lock:`.
SensorThreadAcquire ==
  /\ poll_pc = "update"
  /\ gpio_lock = ""
  /\ gpio_lock' = "poll"
  /\ poll_pc' = "update_runout"
  /\ printer_calls' = << >>
  /\ event_started' = FALSE
  /\ UNCHANGED <<now, settings, runout_debouncer, jam_debouncer,
                 print_running, setup_pc, runout_triggered, jam_triggered,
                 poll_exc, paused_by, start_cancelled, samples, closed, caller_pc>>

\* if self._runout_debouncer is not None: update(); runout_triggered = falling
SensorThreadUpdateRunout ==
  /\ poll_pc = "update_runout"
  /\ \E read \in BOOLEAN, raw \in BOOLEAN :
       LET has == runout_debouncer # None
           fail == has /\ ~read
           new == IF has /\ ~fail
                  THEN update(runout_debouncer, raw, now)
                  ELSE runout_debouncer
       IN /\ runout_debouncer' = new
          /\ runout_triggered' = (has /\ ~fail /\ new.falling)
          /\ poll_pc' = IF fail THEN "dead" ELSE "update_jam"
          /\ poll_exc' = IF fail THEN "get_value" ELSE poll_exc
          /\ gpio_lock' = IF fail THEN "" ELSE gpio_lock
  /\ printer_calls' = << >>
  /\ event_started' = FALSE
  /\ UNCHANGED <<now, settings, jam_debouncer, print_running, setup_pc,
                 jam_triggered, paused_by, start_cancelled, samples, closed, caller_pc>>

\* if self._jam_debouncer is not None: update(); jam_triggered = rising
SensorThreadUpdateJam ==
  /\ poll_pc = "update_jam"
  /\ \E read \in BOOLEAN, raw \in BOOLEAN :
       LET has == jam_debouncer # None
           fail == has /\ ~read
           new == IF has /\ ~fail
                  THEN update(jam_debouncer, raw, now)
                  ELSE jam_debouncer
       IN /\ jam_debouncer' = new
          /\ jam_triggered' = (has /\ ~fail /\ new.rising)
          /\ poll_pc' = IF fail THEN "dead" ELSE "release"
          /\ poll_exc' = IF fail THEN "get_value" ELSE poll_exc
          /\ gpio_lock' = IF fail THEN "" ELSE gpio_lock
  /\ printer_calls' = << >>
  /\ event_started' = FALSE
  /\ UNCHANGED <<now, settings, runout_debouncer, print_running, setup_pc,
                 runout_triggered, paused_by, start_cancelled, samples, closed, caller_pc>>

\* A polling loop that calls the handlers inside the `with` block.
SensorThreadRelease_after_handlers ==
  /\ poll_pc = "release"
  /\ poll_pc' = "runout_handler"
  /\ printer_calls' = << >>
  /\ event_started' = FALSE
  /\ UNCHANGED <<now, settings, runout_debouncer, jam_debouncer,
                 print_running, setup_pc, runout_triggered, jam_triggered,
                 poll_exc, paused_by, start_cancelled, samples, locks>>

\* _sensor_thread leaves the `with` block; the handlers come next.
SensorThreadRelease ==
  /\ poll_pc = "release"
  /\ gpio_lock' = ""
  /\ poll_pc' = "runout_handler"
  /\ printer_calls' = << >>
  /\ event_started' = FALSE
  /\ UNCHANGED <<now, settings, runout_debouncer, jam_debouncer,
                 print_running, setup_pc, runout_triggered, jam_triggered,
                 poll_exc, paused_by, start_cancelled, samples, closed, caller_pc>>

\* time.sleep(0.2), then the next iteration resets its locals.
SensorThreadSleep ==
  /\ poll_pc = "sleep"
  /\ now < MaxLockTicks * SleepMs
  /\ now' = now + SleepMs
  /\ poll_pc' = "update"
  /\ runout_triggered' = FALSE
  /\ jam_triggered' = FALSE
  /\ printer_calls' = << >>
  /\ event_started' = FALSE
  /\ UNCHANGED <<settings, runout_debouncer, jam_debouncer, print_running,
                 setup_pc, poll_exc, paused_by, start_cancelled, samples, locks>>

\* _setup_sensor that runs its body without taking the lock.
SetupAcquire_no_lock ==
  /\ setup_pc = "setup"
  /\ setup_pc' = "close_runout"
  /\ printer_calls' = << >>
  /\ event_started' = FALSE
  /\ UNCHANGED <<now, settings, runout_debouncer, jam_debouncer,
                 print_running, poll_pc, runout_triggered, jam_triggered,
                 poll_exc, paused_by, start_cancelled, samples, locks>>

\* _setup_sensor enters `with self._gpio_lock:`.
SetupAcquire ==
  /\ setup_pc = "setup"
  /\ gpio_lock = ""
  /\ gpio_lock' = "setup"
  /\ setup_pc' = "close_runout"
  /\ printer_calls' = << >>
  /\ event_started' = FALSE
  /\ UNCHANGED <<now, settings, runout_debouncer, jam_debouncer,
                 print_running, poll_pc, runout_triggered, jam_triggered,
                 poll_exc, paused_by, start_cancelled, samples, closed, caller_pc>>

\* if self._runout_debouncer is not None: ...line.owner().close()
SetupCloseRunout ==
  /\ setup_pc = "close_runout"
  /\ closed' = IF runout_debouncer # None THEN closed \cup {"runout"}
               ELSE closed
  /\ setup_pc' = IF runout_debouncer # None THEN "drop_runout"
                 ELSE "close_jam"
  /\ printer_calls' = << >>
  /\ event_started' = FALSE
  /\ UNCHANGED <<now, settings, runout_debouncer, jam_debouncer,
                 print_running, poll_pc, runout_triggered, jam_triggered,
                 poll_exc, paused_by, start_cancelled, samples, gpio_lock, caller_pc>>

\* self._runout_debouncer = None
SetupDropRunout ==
  /\ setup_pc = "drop_runout"
  /\ runout_debouncer' = None
  /\ closed' = closed \ {"runout"}
  /\ setup_pc' = "close_jam"
  /\ printer_calls' = << >>
  /\ event_started' = FALSE
  /\ UNCHANGED <<now, settings, jam_debouncer, print_running, poll_pc,
                 runout_triggered, jam_triggered, poll_exc, paused_by, start_cancelled,
                 samples, gpio_lock, caller_pc>>

\* if self._jam_debouncer is not None: ...line.owner().close()
SetupCloseJam ==
  /\ setup_pc = "close_jam"
  /\ closed' = IF jam_debouncer # None THEN closed \cup {"jam"} ELSE closed
  /\ setup_pc' = IF jam_debouncer # None THEN "drop_jam" ELSE "open_runout"
  /\ printer_calls' = << >>
  /\ event_started' = FALSE
  /\ UNCHANGED <<now, settings, runout_debouncer, jam_debouncer,
                 print_running, poll_pc, runout_triggered, jam_triggered,
                 poll_exc, paused_by, start_cancelled, samples, gpio_lock, caller_pc>>

\* self._jam_debouncer = None
SetupDropJam ==
  /\ setup_pc = "drop_jam"
  /\ jam_debouncer' = None
  /\ closed' = closed \ {"jam"}
  /\ setup_pc' = "open_runout"
  /\ printer_calls' = << >>
  /\ event_started' = FALSE
  /\ UNCHANGED <<now, settings, runout_debouncer, print_running, poll_pc,
                 runout_triggered, jam_triggered, poll_exc, paused_by, start_cancelled,
                 samples, gpio_lock, caller_pc>>

\* if self.runout_sensor_enabled: try: ... Debouncer(...) except OSError
SetupOpenRunout ==
  /\ setup_pc = "open_runout"
  /\ \E ok \in BOOLEAN, raw \in BOOLEAN :
       runout_debouncer' =
         IF runout_sensor_enabled
         THEN setup_slot(settings.runout_chip, raw, settings.runout_bounce, ok)
         ELSE runout_debouncer
  /\ setup_pc' = "open_jam"
  /\ printer_calls' = << >>
  /\ event_started' = FALSE
  /\ UNCHANGED <<now, settings, jam_debouncer, print_running, poll_pc,
                 runout_triggered, jam_triggered, poll_exc, paused_by, start_cancelled,
                 samples, locks>>

\* if self.jam_sensor_enabled: try: ... Debouncer(...) except OSError
SetupOpenJam ==
  /\ setup_pc = "open_jam"
  /\ \E ok \in BOOLEAN, raw \in BOOLEAN :
       jam_debouncer' =
         IF jam_sensor_enabled
         THEN setup_slot(settings.jam_chip, raw, settings.jam_bounce, ok)
         ELSE jam_debouncer
  /\ setup_pc' = "release"
  /\ printer_calls' = << >>
  /\ event_started' = FALSE
  /\ UNCHANGED <<now, settings, runout_debouncer, print_running, poll_pc,
                 runout_triggered, jam_triggered, poll_exc, paused_by, start_cancelled,
                 samples, locks>>

\* _setup_sensor leaves the `with` block and releases the lock it took.
SetupRelease ==
  /\ setup_pc = "release"
  /\ gpio_lock' = IF gpio_lock = "setup" THEN "" ELSE gpio_lock
  /\ setup_pc' = "idle"
  /\ printer_calls' = << >>
  /\ event_started' = FALSE
  /\ UNCHANGED <<now, settings, runout_debouncer, jam_debouncer,
                 print_running, poll_pc, runout_triggered, jam_triggered,
                 poll_exc, paused_by, start_cancelled, samples, closed, caller_pc>>

\* The positions of a caller thread that is about to read a sensor property,
\* and the position it has inside the property's `with` block.
locked_pc(pc) ==
  IF pc = "filament" THEN "filament_locked"
  ELSE IF pc = "jammed" THEN "jammed_locked"
  ELSE IF pc = "started_runout" THEN "started_runout_locked"
  ELSE "started_jam_locked"

\* A request arrives: GET /filament or GET /jammed for an enabled sensor, or
\* on_event(PRINT_STARTED).
CallerStart ==
  /\ caller_pc = "idle"
  /\ \E pc \in {"filament", "jammed", "started_runout"} :
       /\ pc = "filament" => runout_sensor_enabled
       /\ pc = "jammed" => jam_sensor_enabled
       /\ caller_pc' = pc
  /\ printer_calls' = << >>
  /\ event_started' = FALSE
  /\ UNCHANGED <<now, settings, runout_debouncer, jam_debouncer,
                 print_running, setup_pc, poll_pc, runout_triggered,
                 jam_triggered, poll_exc, paused_by, start_cancelled, samples, gpio_lock,
                 closed>>

\* runout_sensor / jam_sensor enters `with self._gpio_lock:`.
SensorPropertyAcquire ==
  /\ caller_pc \in {"filament", "jammed", "started_runout", "started_jam"}
  /\ gpio_lock = ""
  /\ gpio_lock' = "caller"
  /\ caller_pc' = locked_pc(caller_pc)
  /\ printer_calls' = << >>
  /\ event_started' = FALSE
  /\ UNCHANGED <<now, settings, runout_debouncer, jam_debouncer,
                 print_running, setup_pc, poll_pc, runout_triggered,
                 jam_triggered, poll_exc, paused_by, start_cancelled, samples, closed>>

\* runout_sensor / jam_sensor returns, and the caller goes on: the api
\* answers, on_event(PRINT_STARTED) calls cancel_print() on a bad reading.
SensorPropertyReturn ==
  /\ caller_pc \in {"filament_locked", "jammed_locked",
                    "started_runout_locked", "started_jam_locked"}
  /\ gpio_lock' = ""
  /\ caller_pc' = IF caller_pc = "started_runout_locked" THEN "started_jam"
                  ELSE IF caller_pc = "started_jam_locked" THEN "started_gate"
                  ELSE "idle"
  /\ printer_calls' =
       IF \/ caller_pc = "started_runout_locked" /\ runout_sensor
          \/ caller_pc = "started_jam_locked" /\ jam_sensor
       THEN <<"cancel_print">> ELSE << >>
  /\ event_started' = FALSE
  /\ UNCHANGED <<now, settings, runout_debouncer, jam_debouncer,
                 print_running, setup_pc, poll_pc, runout_triggered,
                 jam_triggered, poll_exc, paused_by, start_cancelled, samples, closed>>

\* on_event(PRINT_STARTED) after its two readings: the gate.
StartedGate ==
  /\ caller_pc = "started_gate"
  /\ print_running' = on_event_gate(PRINT_STARTED)
  /\ paused_by' = << >>
  /\ caller_pc' = "idle"
  /\ printer_calls' = << >>
  /\ event_started' = TRUE
  /\ UNCHANGED <<now, settings, runout_debouncer, jam_debouncer, setup_pc,
                 poll_pc, runout_triggered, jam_triggered, poll_exc,
                 start_cancelled, samples, gpio_lock, closed>>

\* on_event for the events that read no sensor.
OnEventOther ==
  /\ caller_pc = "idle"
  /\ \E event \in Events \ {PRINT_STARTED} : on_event(event)

\* The initialized plugin with both sensors configured and installed, and
\* the pause settings of get_settings_defaults.
InitLock ==
  /\ now = 0
  /\ settings \in {s \in InitSettings :
                     /\ s.runout_chip # ""
                     /\ s.jam_chip # ""
                     /\ s.runout_pause_print
                     /\ s.jammed_pause_print
                     /\ s.jammed_gcode = ""}
  /\ \E rawR \in BOOLEAN :
       runout_debouncer =
         setup_slot(settings.runout_chip, rawR, settings.runout_bounce, TRUE)
  /\ \E rawJ \in BOOLEAN :
       jam_debouncer =
         setup_slot(settings.jam_chip, rawJ, settings.jam_bounce, TRUE)
  /\ print_running = FALSE
  /\ setup_pc = "idle"
  /\ poll_pc = "update"
  /\ runout_triggered = FALSE
  /\ jam_triggered = FALSE
  /\ poll_exc = ""
  /\ printer_calls = << >>
  /\ paused_by = << >>
  /\ event_started = FALSE
  /\ start_cancelled = FALSE
  /\ run_value = FALSE
  /\ run_since = 0
  /\ last_glitch = -1
  /\ gpio_lock = ""
  /\ closed = {}
  /\ caller_pc = "idle"

NextLock ==
  \/ OnSettingsSave
  \/ SetupAcquire
  \/ SetupCloseRunout
  \/ SetupDropRunout
  \/ SetupCloseJam
  \/ SetupDropJam
  \/ SetupOpenRunout
  \/ SetupOpenJam
  \/ SetupRelease
  \/ CallerStart
  \/ SensorPropertyAcquire
  \/ SensorPropertyReturn
  \/ StartedGate
  \/ OnEventOther
  \/ SensorThreadAcquire
  \/ SensorThreadUpdateRunout
  \/ SensorThreadUpdateJam
  \/ SensorThreadRelease
  \/ RunoutHandler
  \/ RunoutHandlerPaused
  \/ RunoutHandlerGcode
  \/ JamHandler
  \/ JamHandlerPaused
  \/ JamHandlerGcode
  \/ SensorThreadSleep

SpecLock == InitLock /\ [][NextLock]_vars

\* ---------------------------------------------- claims on the Debouncer

\* A step of SpecDebouncer that is one Debouncer.update.
UpdateStep == poll_pc = "update" /\ poll_pc' = "sleep"

\* C3: update changes the stabilized value only at a tick where
\* now - _last_change_time > interval: the new value is the level of the
\* latest run of equal samples, _last_change_time is the first sample of that
\* run, and the run has lasted strictly longer than the interval.
C3_CommitOnlyAfterHold ==
  [][UpdateStep /\ runout_debouncer'.value # runout_debouncer.value
       => /\ now - runout_debouncer'.last_change_time
               > runout_debouncer.interval * MsPerSecond
          /\ runout_debouncer'.value = run_value'
          /\ runout_debouncer'.last_change_time = run_since'
          /\ now - run_since' > runout_debouncer.interval * MsPerSecond]_vars

\* A one second debounce has just committed a rising edge.
C3_Witness ==
  /\ poll_pc = "sleep"
  /\ runout_debouncer.interval = 1
  /\ runout_debouncer.rising
  /\ now - run_since > MsPerSecond

\* C4: with interval > 0, an update that samples the stabilized level, or a
\* level that has been off the stabilized level for less than the interval,
\* leaves the stabilized value alone and sets neither flag; so a glitch
\* shorter than the interval never shows, however long ago it was.
C4_GlitchSuppressed ==
  [][UpdateStep /\ runout_debouncer.interval > 0
       /\ \/ run_value' = runout_debouncer.value
          \/ now - run_since' < runout_debouncer.interval * MsPerSecond
       => /\ runout_debouncer'.value = runout_debouncer.value
          /\ ~runout_debouncer'.rising
          /\ ~runout_debouncer'.falling]_vars

\* A glitch shorter than the one second interval, and the level then held on
\* the stabilized value for longer than the interval.
C4_Witness ==
  /\ poll_pc = "sleep"
  /\ runout_debouncer.interval = 1
  /\ last_glitch >= 0
  /\ last_glitch < MsPerSecond
  /\ run_value = runout_debouncer.value
  /\ now - run_since > MsPerSecond

\* C5: after every update, rising says that this update changed the
\* stabilized value false -> true and falling that it changed it
\* true -> false; the flags are never both true, and both are false after
\* construction.
C5_EdgeFlags ==
  /\ [][UpdateStep
          => /\ runout_debouncer'.rising
                  = (~runout_debouncer.value /\ runout_debouncer'.value)
             /\ runout_debouncer'.falling
                  = (runout_debouncer.value /\ ~runout_debouncer'.value)]_vars
  /\ [](~(runout_debouncer.rising /\ runout_debouncer.falling))
  /\ [](now = 0 /\ poll_pc = "update"
          => ~runout_debouncer.rising /\ ~runout_debouncer.falling)

\* An update has just reported a falling edge.
C5_Witness ==
  /\ poll_pc = "sleep"
  /\ runout_debouncer.falling
  /\ ~runout_debouncer.value

\* C6: with runout_bounce = 1000 the stabilized value has followed the raw
\* level by the first tick at which the level has been held for more than
\* 1000 ms.
C6_DefaultBounceIsMilliseconds ==
  poll_pc = "sleep" /\ settings.runout_bounce = DefaultBounce
    /\ now - run_since > settings.runout_bounce
    => runout_debouncer.value = run_value

\* C7 as stated: with interval <= 0 the update that first samples a new raw
\* level commits it, with the matching flag.
C7_NoHoldAtZeroOrBelow ==
  [][UpdateStep /\ runout_debouncer.interval <= 0 /\ run_value' # run_value
       => /\ runout_debouncer'.value = run_value'
          /\ runout_debouncer'.rising = run_value'
          /\ runout_debouncer'.falling = ~run_value']_vars

\* C7 as amended: with interval < 0 the update that first samples a new raw
\* level commits it, with the matching flag; with interval = 0 that update
\* leaves the stabilized value alone and reports no edge, and the level is
\* committed by an update at a later clock reading that samples it again.
C7_NoHoldBelowZero_OneTickAtZero ==
  [][UpdateStep
       => /\ runout_debouncer.interval < 0 /\ run_value' # run_value
             => /\ runout_debouncer'.value = run_value'
                /\ runout_debouncer'.rising = run_value'
                /\ runout_debouncer'.falling = ~run_value'
          /\ runout_debouncer.interval = 0 /\ run_value' # run_value
             => /\ runout_debouncer'.value = runout_debouncer.value
                /\ ~runout_debouncer'.rising
                /\ ~runout_debouncer'.falling
          /\ runout_debouncer.interval = 0 /\ run_value' = run_value
               /\ now > run_since
             => /\ runout_debouncer'.value = run_value'
                /\ runout_debouncer'.rising
                     = (run_value' /\ ~runout_debouncer.value)
                /\ runout_debouncer'.falling
                     = (~run_value' /\ runout_debouncer.value)]_vars

\* A zero interval has just committed a rising edge, one tick after the
\* level was first sampled.
C7_Witness ==
  /\ poll_pc = "sleep"
  /\ runout_debouncer.interval = 0
  /\ runout_debouncer.rising
  /\ now - run_since = SleepMs

\* ------------------------------------------------ claims on the plugin

\* A step of the polling thread.
PollStep == poll_pc' # poll_pc

C2_StartAbortsOnBadSensor ==
  [][event_started' /\ (runout_sensor \/ jam_sensor)
       => \E i \in DOMAIN printer_calls' : printer_calls'[i] = "cancel_print"]_vars

\* PRINT_STARTED has just been handled with the runout line reading no
\* filament, and the print was cancelled.
C2_Witness ==
  /\ event_started
  /\ runout_sensor
  /\ ~jam_sensor
  /\ printer_calls = <<"cancel_print">>

\* C8: a get_value() that raises during a tick does not end the polling
\* thread.
C8_ReadFailureKeepsPolling == ~(poll_pc = "dead" /\ poll_exc = "get_value")

\* C9: a pause_print() or commands() that raises in a handler does not end
\* the polling thread.
C9_HandlerFailureKeepsPolling ==
  ~(poll_pc = "dead" /\ poll_exc \in {"pause_print", "commands"})

\* C10: once the plugin is initialized, a sensor with no Debouncer installed
\* reports status "-1", and its handler is not run.
C10_NoLineReportsDisabled ==
  setup_pc # "initialize"
    => /\ runout_debouncer = None
            => api_get_filament = "-1" /\ ~runout_triggered
       /\ jam_debouncer = None
            => api_get_jammed = "-1" /\ ~jam_triggered

\* C11: a runout or jam handler invoked while the gate is Inactive calls
\* neither pause_print() nor commands() and leaves the gate Inactive,
\* whatever the pause / gcode settings: the polling thread goes straight to
\* what follows the handler.
C11_InactiveGateNoOp ==
  [][PollStep /\ ~print_running
       /\ \/ poll_pc = "runout_handler" /\ runout_triggered
          \/ poll_pc = "jam_handler" /\ jam_triggered
       => /\ printer_calls' = << >>
          /\ ~print_running'
          /\ poll_pc' = IF poll_pc = "runout_handler"
                        THEN "jam_handler" ELSE "sleep"]_vars

\* The jam handler is about to run for a rising edge with the gate Inactive,
\* no pause requested since the gate was last activated, and both
\* jammed_pause_print and a jammed_gcode configured.
C11_Witness ==
  /\ poll_pc = "jam_handler"
  /\ jam_triggered
  /\ ~print_running
  /\ paused_by = << >>
  /\ settings.jammed_pause_print
  /\ jammed_gcode # << >>

\* C12: the gate is a Boolean; on_event leaves it Active for PRINT_STARTED
\* and PRINT_RESUMED, Inactive for PRINT_DONE, PRINT_FAILED, PRINT_PAUSED,
\* PRINT_CANCELLED and ERROR, and unchanged for any other event; a step of
\* the polling thread changes it only to Inactive, and only as the step of a
\* handler that follows its pause_print() call; initialize, on_settings_save
\* and _setup_sensor leave it alone.
C12_GateTransitions ==
  /\ [](print_running \in BOOLEAN)
  /\ [][~PollStep /\ ~print_running'
          => ~on_event(PRINT_STARTED) /\ ~on_event(PRINT_RESUMED)]_vars
  /\ [][~PollStep /\ print_running'
          => \A e \in {PRINT_DONE, PRINT_FAILED, PRINT_PAUSED,
                       PRINT_CANCELLED, ERROR} : ~on_event(e)]_vars
  /\ [][print_running' # print_running => ~on_event(CONNECTED)]_vars
  /\ [][PollStep /\ print_running' # print_running
          => /\ ~print_running'
             /\ poll_pc \in {"runout_paused", "jam_paused"}]_vars
  /\ [][setup_pc' # setup_pc => print_running' = print_running]_vars

\* on_event(PRINT_STARTED) has just left the gate Active while the runout
\* handler, back from its pause_print() call, is about to set it Inactive.
C12_Witness ==
  /\ event_started
  /\ print_running
  /\ poll_pc = "runout_paused"
  /\ paused_by = << >>

\* C13: a second update at the same clock value with the same raw reading
\* leaves the stabilized value, _last_value and _last_change_time as the
\* first call left them, and leaves rising and falling both false.
C13_UpdateIdempotent ==
  [][poll_pc = "sleep" /\ poll_pc' = "repeat"
       => /\ runout_debouncer'.value = runout_debouncer.value
          /\ runout_debouncer'.last_value = runout_debouncer.last_value
          /\ runout_debouncer'.last_change_time
               = runout_debouncer.last_change_time
          /\ ~runout_debouncer'.rising
          /\ ~runout_debouncer'.falling]_vars

\* The second call has run at the clock value at which the first call
\* committed the first rising edge of a one second debounce (the level has
\* been held for 1200 ms, the first tick past the interval).
C13_Witness ==
  /\ poll_pc = "repeat"
  /\ runout_debouncer.interval = 1
  /\ run_since > 0
  /\ now - run_since = MsPerSecond + SleepMs
  /\ last_glitch = -1
  /\ run_value
  /\ runout_debouncer.value
  /\ ~runout_debouncer.rising

\* C14: in every tick the runout handler is invoked exactly when that
\* tick's update took the runout line's stabilized value from true to false,
\* and the jam handler exactly when it took the jam line's from false to
\* true; an edge is handled once, in the tick that found it, the runout
\* handler first.
C14_EdgeDispatchExact ==
  /\ [][PollStep /\ poll_pc = "update"
          => LET fell == /\ runout_debouncer # None
                         /\ runout_debouncer.value
                         /\ ~runout_debouncer'.value
                 rose == /\ jam_debouncer # None
                         /\ ~jam_debouncer.value
                         /\ jam_debouncer'.value
             IN /\ runout_triggered' = fell
                /\ jam_triggered' = rose
                /\ fell \/ rose => poll_pc' = "runout_handler"]_vars
  /\ [][PollStep /\ jam_triggered
          /\ poll_pc \in {"runout_handler", "runout_paused", "runout_gcode"}
          => poll_pc' \in {"runout_paused", "runout_gcode", "jam_handler"}]_vars
  /\ [][PollStep /\ poll_pc = "sleep"
          => ~runout_triggered' /\ ~jam_triggered']_vars

\* ------------------------------------------------- claims on the lock

\* The polling thread is inside its `with self._gpio_lock:` block.
PollLocked == poll_pc \in {"update_runout", "update_jam", "release"}
\* _setup_sensor is inside its `with self._gpio_lock:` block.
SetupLocked ==
  setup_pc \in {"close_runout", "drop_runout", "close_jam", "drop_jam",
                "open_runout", "open_jam", "release"}
\* A caller is inside the `with` block of runout_sensor or jam_sensor.
CallerLocked ==
  caller_pc \in {"filament_locked", "jammed_locked",
                 "started_runout_locked", "started_jam_locked"}
\* A Debouncer as its constructor leaves it.
Fresh(d) ==
  d.value = d.last_value /\ ~d.rising /\ ~d.falling
    /\ d.last_change_time = now

\* C15: while the polling thread is in its locked section, or a caller in a
\* sensor property, _setup_sensor is not in the middle of its body and no
\* slot holds a Debouncer whose chip has been closed; and a Debouncer that
\* _setup_sensor installs is complete: value and _last_value are its one
\* reading, both flags are false.
C15_SetupAtomic ==
  /\ [](PollLocked \/ CallerLocked => ~SetupLocked /\ closed = {})
  /\ [][setup_pc = "open_runout" /\ setup_pc' = "open_jam"
          /\ runout_debouncer' # None => Fresh(runout_debouncer')]_vars
  /\ [][setup_pc = "open_jam" /\ setup_pc' = "release"
          /\ jam_debouncer' # None => Fresh(jam_debouncer')]_vars

\* The polling thread holds the lock and is about to update a runout line
\* that a reconfiguration installed at this clock value, while the next
\* on_settings_save waits for the lock.
C15_Witness ==
  /\ poll_pc = "update_runout"
  /\ gpio_lock = "poll"
  /\ setup_pc = "setup"
  /\ now > 0
  /\ runout_debouncer # None
  /\ Fresh(runout_debouncer)

\* The polling thread is inside runout_handler or jam_handler.
InHandler ==
  poll_pc \in {"runout_paused", "runout_gcode", "jam_paused", "jam_gcode"}
\* The polling thread is at the call of a handler, or inside one.
AtHandler == InHandler \/ poll_pc \in {"runout_handler", "jam_handler"}
\* The next statement of the polling thread's handlers.
HandlerStep ==
  \/ RunoutHandler
  \/ RunoutHandlerPaused
  \/ RunoutHandlerGcode
  \/ JamHandler
  \/ JamHandlerPaused
  \/ JamHandlerGcode
\* The next statement of the thread that holds the lock.
HolderStep ==
  \/ gpio_lock = "poll"
       /\ (SensorThreadUpdateRunout \/ SensorThreadUpdateJam
             \/ SensorThreadRelease)
  \/ gpio_lock = "setup"
       /\ (SetupCloseRunout \/ SetupDropRunout \/ SetupCloseJam
             \/ SetupDropJam \/ SetupOpenRunout \/ SetupOpenJam
             \/ SetupRelease)
  \/ gpio_lock = "caller" /\ SensorPropertyReturn

\* C16: the handlers run while the polling thread does not hold the lock;
\* whoever holds the lock is inside its `with` block and its next statement
\* can run, so the lock is released without waiting for any other thread;
\* and a handler's next statement can run whoever holds the lock, also
\* while _setup_sensor or a sensor property holds or awaits it.
C16_HandlersUnlockedNoDeadlock ==
  /\ AtHandler => gpio_lock # "poll" /\ ENABLED HandlerStep
  /\ gpio_lock = "poll" => PollLocked
  /\ gpio_lock = "setup" => SetupLocked
  /\ gpio_lock = "caller" => CallerLocked
  /\ gpio_lock \in {"", "poll", "setup", "caller"}
  /\ gpio_lock # "" => ENABLED HolderStep

\* runout_handler is between pause_print() and its gate write while
\* _setup_sensor holds the lock in the middle of its body and an
\* api_get_filament waits for the lock.
C16_Witness ==
  /\ poll_pc = "runout_paused"
  /\ gpio_lock = "setup"
  /\ setup_pc = "drop_runout"
  /\ caller_pc = "filament"

\* ---------------------------------------- claims on the gate and the print

\* C17: the polling thread never takes the gate from Active to Inactive
\* unless a handler has called pause_print() since on_event last set the
\* gate Active: a pause requested before PRINT_STARTED / PRINT_RESUMED was
\* handled does not switch the gate off afterwards.
C17_NoStaleGateWrite ==
  [][PollStep /\ print_running /\ ~print_running'
       => paused_by # << >>]_vars

\* C18: with a runout Debouncer installed, runout_pause_print set, the gate
\* Active and the stabilized value reading filament, a line that goes to no
\* filament and stays there leads to a pause_print() call.  pause_print() is
\* called by the polling thread only, so the claim needs that the thread has
\* not ended when the line has just been sampled at no filament for the
\* first time, with the stabilized value still reading filament, the gate
\* Active and no pause_print() called since the gate became Active.
C18_AbsentLineLeadsToPause ==
  ~ /\ poll_pc = "dead"
    /\ runout_debouncer # None
    /\ settings.runout_pause_print
    /\ print_running
    /\ paused_by = << >>
    /\ runout_debouncer.value
    /\ ~runout_debouncer.last_value
    /\ runout_debouncer.last_change_time = now

\* C19: when the polling thread has finished a tick and its handlers, with
\* a runout Debouncer installed, runout_pause_print set, the gate Active and
\* the stabilized value reading no filament, then pause_print() has been
\* called since the gate became Active, or the on_event that set it Active
\* called cancel_print().
C19_NoUnguardedActivePrint ==
  /\ poll_pc = "sleep"
  /\ runout_debouncer # None
  /\ settings.runout_pause_print
  /\ print_running
  /\ runout_sensor
  => paused_by # << >> \/ start_cancelled

\* What one handler does when it is run for an edge with the gate Active:
\* pc is the position of its call, pc_paused the position after its
\* pause_print() call and pc_gcode the position of its gcode test.
HandlerEffect(pc, pc_paused, pc_gcode, pc_next, triggered, pause, gcode) ==
  /\ poll_pc = pc /\ triggered /\ print_running
       => /\ print_running' = print_running
          /\ pause => /\ printer_calls' = <<"pause_print">>
                      /\ poll_pc' \in {pc_paused, "dead"}
          /\ ~pause => /\ printer_calls' = << >>
                       /\ poll_pc' = pc_gcode
  /\ poll_pc = pc_paused
       => /\ ~print_running'
          /\ printer_calls' = << >>
          /\ poll_pc' = pc_gcode
  /\ poll_pc = pc_gcode
       => /\ print_running' = print_running
          /\ gcode # << >> => /\ printer_calls' = <<"commands">>
                              /\ poll_pc' \in {pc_next, "dead"}
          /\ gcode = << >> => /\ printer_calls' = << >>
                              /\ poll_pc' = pc_next

====
